---- MODULE Spec2Model ----
(***************************************************************************)
(* Model of RooProduct (roofitcore/src/RooProduct.cxx): the grouping of    *)
(* the real terms of a product by shared integration variables, the list   *)
(* of partial integrals built from the groups, the integral cache that     *)
(* keeps these lists under integer codes, and the evaluation of the        *)
(* product and of a cached list.                                           *)
(*                                                                         *)
(* A RooArgSet / RooArgList is a sequence without duplicates in insertion  *)
(* order (the order its iterator walks).  assert() is taken as active: a   *)
(* failed assertion ends the program (aborted # "no").                     *)
(***************************************************************************)
EXTENDS Integers, Sequences, FiniteSets, TLC

\* ------------------------------------------------------------------------
\* Universe of the model
\* ------------------------------------------------------------------------
\* names available for real terms; a product holds a prefix of this list
TermNames == <<"f", "g", "h", "k">>
\* number of real terms of the products of the grouping specification
MaxTerms == 3
\* integration variables of the grouping specification
GroupVars == {"x", "y", "z"}
\* integration variables of the cache specifications
ProdVars == {"x", "y"}
\* most slots the cache holds in the model
MaxSlots == 2
\* most revivals one analyticalIntegral call is followed through
MaxRevivals == 2

VARIABLES
  compRSet,   \* _compRSet: the real terms, in insertion order
  compCSet,   \* _compCSet: the discrete terms, in insertion order
  dep,        \* dependency oracle: term -> the variables it depends on
  val,        \* current value of each real term
  valuations, \* the valuations the terms move among
  idx,        \* current index of each discrete term
  noInt,      \* the real terms whose createIntegral supplies no integral
  forceNumInt,\* _forceNumInt
  cache,      \* _cacheMgr: the slots, slot k holding index k - 1
  preVal,     \* per sterilized slot: <<the value analyticalIntegral gave for
              \* its code when the slot was sterilized>>, or <<>> when the
              \* term values changed since
  aborted,    \* "no", or why the program ended
  call,       \* the last operation: its arguments and what it returned
  gVars,      \* argument of the last groupProductTerms call
  gMap,       \* <<its result>>, or NoCall
  gVars2,     \* argument of a repeated groupProductTerms call
  gMap2       \* <<its result>>, or NoCall

prodState  == <<compRSet, compCSet, dep, val, valuations, idx, noInt, forceNumInt>>
groupCalls == <<gVars, gMap, gVars2, gMap2>>
cacheState == <<cache, preVal>>
vars == <<compRSet, compCSet, dep, val, valuations, idx, noInt, forceNumInt, cache, preVal,
          aborted, call, gVars, gMap, gVars2, gMap2>>

\* the record of a call that was not made
NoCall == <<>>

\* ------------------------------------------------------------------------
\* RooArgSet
\* ------------------------------------------------------------------------
ToSet(s) == {s[i] : i \in 1..Len(s)}

\* RooArgSet::add(const RooAbsArg&): an element already in the set is refused
AddArg(s, e) == IF e \in ToSet(s) THEN s ELSE Append(s, e)

\* RooArgSet::add(const RooAbsCollection&): add the elements one by one
RECURSIVE AddAll(_, _)
AddAll(s, t) == IF t = <<>> THEN s ELSE AddAll(AddArg(s, Head(t)), Tail(t))

\* RooAbsCollection::overlaps
Overlaps(a, b) == ToSet(a) \cap ToSet(b) # {}

\* all sequences without duplicates over the elements of S
RECURSIVE Orders(_)
Orders(S) == IF S = {} THEN {<<>>}
             ELSE UNION {{<<e>> \o o : o \in Orders(S \ {e})} : e \in S}

\* the RooArgSets over the elements of S, in every iteration order
ArgSets(S) == UNION {Orders(T) : T \in SUBSET S}

\* ------------------------------------------------------------------------
\* Dependency oracle
\* ------------------------------------------------------------------------
\* RooAbsArg::dependsOn(const RooAbsArg&)
DependsOnVar(t, v) == v \in dep[t]

\* RooAbsArg::dependsOn(const RooAbsCollection&): true when the term depends
\* on at least one element of the collection
DependsOnSet(t, V) == \E i \in 1..Len(V) : DependsOnVar(t, V[i])

\* ------------------------------------------------------------------------
\* groupProductTerms
\* ------------------------------------------------------------------------
\* the iterator "end": one past the last element
End(map) == Len(map) + 1

\* a search that compares each group with its right neighbour only
findOverlapAdjacent(map) ==
  LET hits == {i \in 1..(Len(map) - 1) : Overlaps(map[i].second, map[i + 1].second)}
  IN IF hits = {} THEN <<End(map), End(map)>>
     ELSE LET i == CHOOSE a \in hits : \A b \in hits : a <= b IN <<i, i + 1>>

\* findOverlap2nd: the first pair i < j, in the order of the two nested
\* loops, whose term sets overlap; <<end, end>> when there is none
findOverlap2nd(map) ==
  LET hits == {p \in (1..Len(map)) \X (1..Len(map)) :
                 p[1] < p[2] /\ Overlaps(map[p[1]].second, map[p[2]].second)}
  IN IF hits = {} THEN <<End(map), End(map)>>
     ELSE LET i == CHOOSE a \in {p[1] : p \in hits} :
                     \A b \in {p[1] : p \in hits} : a <= b
              j == CHOOSE a \in {p[2] : p \in {q \in hits : q[1] = i}} :
                     \A b \in {p[2] : p \in {q \in hits : q[1] = i}} : a <= b
          IN <<i, j>>

\* a merge that concatenates the two groups instead of adding set to set
MergePairConcat(map, i, j) ==
  LET merged == [first  |-> map[i].first \o map[j].first,
                 second |-> map[i].second \o map[j].second]
  IN [k \in 1..(Len(map) - 1) |->
        IF k = i THEN merged ELSE IF k < j THEN map[k] ELSE map[k + 1]]

\* one pass of the do-while body: merge the second group of the pair into
\* the first and erase the second
MergePair(map, i, j) ==
  LET merged == [first  |-> AddAll(map[i].first, map[j].first),
                 second |-> AddAll(map[i].second, map[j].second)]
  IN [k \in 1..(Len(map) - 1) |->
        IF k = i THEN merged ELSE IF k < j THEN map[k] ELSE map[k + 1]]

\* a merge step that runs once instead of looping
MergeOnce(map) ==
  LET p == findOverlap2nd(map)
  IN IF p[1] # p[2] THEN MergePair(map, p[1], p[2]) ELSE map

\* the do-while loop: merge until no two groups overlap
RECURSIVE MergeOverlaps(_)
MergeOverlaps(map) ==
  LET p == findOverlap2nd(map)
  IN IF p[1] # p[2] THEN MergeOverlaps(MergePair(map, p[1], p[2])) ELSE map

\* the group of the terms that depend on no variable of allVars, if any, in
\* the order _compRIter walks the terms
IndepGroup(terms, allVars) ==
  LET indep == SelectSeq(terms, LAMBDA t : ~DependsOnSet(t, allVars))
  IN IF Len(indep) # 0 THEN <<[first |-> <<>>, second |-> indep]>> ELSE <<>>

\* one group per variable of allVars, in the order of allVars
VarGroups(terms, allVars) ==
  [n \in 1..Len(allVars) |->
     [first  |-> <<allVars[n]>>,
      second |-> SelectSeq(terms, LAMBDA t : DependsOnVar(t, allVars[n]))]]

\* the sum of a sequence of sizes
RECURSIVE SumSizes(_)
SumSizes(sizes) == IF sizes = <<>> THEN 0 ELSE Head(sizes) + SumSizes(Tail(sizes))

\* groupProductTerms pushing the group of the independent terms after the
\* groups of the variables
groupProductTermsIndepLast(terms, allVars) ==
  LET map   == MergeOverlaps(VarGroups(terms, allVars) \o IndepGroup(terms, allVars))
      nVar  == SumSizes([n \in 1..Len(map) |-> Len(map[n].first)])
      nFunc == SumSizes([n \in 1..Len(map) |-> Len(map[n].second)])
  IN [map |-> map, ok |-> nVar = Len(allVars) /\ nFunc = Len(terms)]

\* groupProductTerms(allVars): the map, and whether the two assertions at
\* its end hold
groupProductTerms(terms, allVars) ==
  LET map   == MergeOverlaps(IndepGroup(terms, allVars) \o VarGroups(terms, allVars))
      nVar  == SumSizes([n \in 1..Len(map) |-> Len(map[n].first)])
      nFunc == SumSizes([n \in 1..Len(map) |-> Len(map[n].second)])
  IN [map |-> map, ok |-> nVar = Len(allVars) /\ nFunc = Len(terms)]


\* ------------------------------------------------------------------------
\* Values: a Double_t is kept as the exact number n / 2^d
\* ------------------------------------------------------------------------
RECURSIVE Norm(_)
Norm(q) == IF q.d > 0 /\ q.n % 2 = 0 THEN Norm([n |-> q.n \div 2, d |-> q.d - 1])
           ELSE q

FromInt(i) == [n |-> i, d |-> 0]
One == FromInt(1)
Half(i) == Norm([n |-> i, d |-> 1])
Mul(a, b) == Norm([n |-> a.n * b.n, d |-> a.d + b.d])

\* the values a real term takes in the model: 2 and 2.5
TermValues == {FromInt(2), Half(5)}
\* names available for discrete terms
CatNames == <<"c">>
\* the indices a discrete term takes in the model
CatIndices == {0, 3}

\* ------------------------------------------------------------------------
\* evaluate
\* ------------------------------------------------------------------------
\* the first loop of evaluate: prod *= rcomp->getVal(nset) over _compRSet
RECURSIVE MulRealTerms(_, _)
MulRealTerms(prod, terms) ==
  IF terms = <<>> THEN prod
  ELSE MulRealTerms(Mul(prod, val[Head(terms)]), Tail(terms))

\* the second loop of evaluate: prod *= ccomp->getIndex() over _compCSet
RECURSIVE MulCatTerms(_, _)
MulCatTerms(prod, cats) ==
  IF cats = <<>> THEN prod
  ELSE MulCatTerms(Mul(prod, FromInt(idx[Head(cats)])), Tail(cats))

\* evaluate without the loop over the discrete terms
evaluateRealOnly(terms, cats) == MulRealTerms(One, terms)

\* RooProduct::evaluate of the product with the given terms
evaluate(terms, cats) == MulCatTerms(MulRealTerms(One, terms), cats)

\* ------------------------------------------------------------------------
\* Range names
\* ------------------------------------------------------------------------
\* the null range name (no range)
NullRange == "<none>"
RangeNames == <<"r">>
\* the range-name arguments of the model
RangeArgs == {NullRange} \cup ToSet(RangeNames)

\* RooNameReg::ptr: null for the null name, else the one token registered
\* for the text of the name
NameRegPtr(name) ==
  IF name = NullRange THEN 0
  ELSE CHOOSE n \in 1..Len(RangeNames) : RangeNames[n] = name

\* ------------------------------------------------------------------------
\* The elements of a partial-integral list
\* ------------------------------------------------------------------------
\* an input term of the product
TermItem(t) ==
  [kind |-> "term", of |-> "none", name |-> <<t>>, terms |-> <<t>>,
   vars |-> <<>>, range |-> NullRange]

\* makeFPName: the prefix, then the names of the terms in the order of the
\* set's iterator, separated by "_X_"
RECURSIVE AppendNames(_, _, _)
AppendNames(pname, terms, first) ==
  IF terms = <<>> THEN pname
  ELSE AppendNames((IF first THEN pname ELSE Append(pname, "_X_")) \o <<Head(terms)>>,
                   Tail(terms), FALSE)

makeFPName(pfx, terms) == AppendNames(<<pfx>>, terms, TRUE)

\* new RooProduct(name, name, terms) for a group of more than one term
SubProduct(terms) ==
  [kind |-> "subprod", of |-> "none", name |-> makeFPName("SUBPROD_", terms),
   terms |-> terms, vars |-> <<>>, range |-> NullRange]

\* the object term->createIntegral(vars, isetRange) returns
Integral(term, ivars, isetRange) ==
  [kind |-> "integral", of |-> term.kind, name |-> term.name, terms |-> term.terms,
   vars |-> ivars, range |-> isetRange]

\* createIntegral supplies no object
CreateIntegralFails(term) == term.kind = "term" /\ term.terms[1] \in noInt

\* width of the integration domain of one variable in a range
RangeWidth(isetRange) == IF isetRange = NullRange THEN 3 ELSE 2

RECURSIVE MulWidths(_, _, _)
MulWidths(prod, n, isetRange) ==
  IF n = 0 THEN prod
  ELSE MulWidths(Mul(prod, FromInt(RangeWidth(isetRange))), n - 1, isetRange)

\* getVal of an element of a partial-integral list: an input term gives its
\* current value, a sub-product evaluates as a RooProduct of its terms, an
\* integral gives the integrand times the width of the range per variable
GetVal(item) ==
  LET integrand == MulRealTerms(One, item.terms)
  IN IF item.kind = "integral"
     THEN MulWidths(integrand, Len(item.vars), item.range)
     ELSE integrand

\* calculate with val = term->getVal() in place of val *= term->getVal()
calculateAssign(partIntList) ==
  IF partIntList = <<>> THEN One ELSE GetVal(partIntList[Len(partIntList)])

\* calculate: val *= term->getVal() over the list
RECURSIVE MulItems(_, _)
MulItems(prod, list) ==
  IF list = <<>> THEN prod ELSE MulItems(Mul(prod, GetVal(Head(list))), Tail(list))

calculate(partIntList) == MulItems(One, partIntList)

\* ------------------------------------------------------------------------
\* The cache manager
\* ------------------------------------------------------------------------
NoObj == <<>>

\* index of the slot registered for the key, or -1
SlotIndex(c, nset, token) ==
  LET hits == {k \in 1..Len(c) : c[k].nset = nset /\ c[k].range = token}
  IN IF hits = {} THEN -1 ELSE (CHOOSE k \in hits : TRUE) - 1

\* getObj(nset, iset, &sterileIndex, rangeToken): the object of the slot of
\* the key (none when there is no slot or the slot is sterilized), and the
\* slot's index
getObj(c, iset, token) ==
  LET i == SlotIndex(c, ToSet(iset), token)
  IN [index |-> i, obj |-> IF i < 0 THEN NoObj ELSE c[i + 1].obj]

\* setObj(nset, iset, obj, rangeToken): an object already registered for the
\* key stays; a sterilized slot of the key is refilled; else a new slot is
\* appended.  Returns the cache and the index of the slot.
setObj(c, iset, obj, token) ==
  LET hit == getObj(c, iset, token)
  IN IF hit.obj # NoObj THEN [cache |-> c, index |-> hit.index]
     ELSE IF hit.index >= 0
          THEN [cache |-> [c EXCEPT ![hit.index + 1].obj = <<obj>>], index |-> hit.index]
          ELSE [cache |-> Append(c, [nset |-> ToSet(iset), range |-> token, obj |-> <<obj>>]),
                index |-> Len(c)]

\* the index names a slot of the cache
ValidIndex(c, index) == index \in 0..(Len(c) - 1)

\* getObjByIndex(index): the object of the slot, none for a sterilized slot
\* and none for an index that names no slot
getObjByIndex(c, index) == IF ValidIndex(c, index) THEN c[index + 1].obj ELSE NoObj

\* nameSet2ByIndex(index): the names persisted with the slot
nameSet2ByIndex(c, index) == c[index + 1].nset

\* RooNameSet::select(list): the elements of the list whose names are
\* persisted, as a set in any of its iteration orders
select(names, list) == {iset \in ArgSets(ProdVars) : ToSet(iset) = names \cap list}

\* getParameters(RooArgSet()): the variables the product depends on
getParameters == UNION {dep[t] : t \in ToSet(compRSet)}

\* ------------------------------------------------------------------------
\* getPartIntList
\* ------------------------------------------------------------------------
\* what dereferencing the missing integral does
UBOutcomes == {"crash", "skip"}

\* the loop over the groups: elem is the CacheElem built so far
RECURSIVE BuildElem(_, _, _, _)

\* the loop with _ownedList.addOwned(*term) moved out of the branch that
\* makes the sub-product: the term of a single-term group is owned too
BuildElemOwnTerm(map, isetRange, ub, elem) ==
  IF map = <<>> \/ elem.aborted # "no" THEN elem
  ELSE
    LET g == Head(map)
        size == Len(g.second)
        term == IF size > 1 THEN SubProduct(g.second) ELSE TermItem(g.second[1])
        owned == Append(elem.ownedList, term)
    IN
    IF size = 0
    THEN [elem EXCEPT !.aborted = "assert: group size"]
    ELSE IF Len(g.first) = 0
    THEN BuildElem(Tail(map), isetRange, ub,
                   [elem EXCEPT !.prodList = Append(@, term), !.ownedList = owned])
    ELSE IF CreateIntegralFails(term)
    THEN IF ub = "crash"
         THEN [elem EXCEPT !.ownedList = owned, !.aborted = "null integral"]
         ELSE BuildElem(Tail(map), isetRange, ub,
                        [elem EXCEPT !.ownedList = owned, !.skipped = TRUE])
    ELSE LET integral == Integral(term, g.first, isetRange)
         IN BuildElem(Tail(map), isetRange, ub,
                      [elem EXCEPT !.prodList = Append(@, integral),
                                   !.ownedList = Append(owned, integral)])

BuildElem(map, isetRange, ub, elem) ==
  IF map = <<>> \/ elem.aborted # "no" THEN elem
  ELSE
    LET g == Head(map)
        size == Len(g.second)
        term == IF size > 1 THEN SubProduct(g.second) ELSE TermItem(g.second[1])
        owned == IF size > 1 THEN Append(elem.ownedList, term) ELSE elem.ownedList
    IN
    IF size = 0
    THEN [elem EXCEPT !.aborted = "assert: group size"]
    ELSE IF Len(g.first) = 0
    THEN BuildElem(Tail(map), isetRange, ub,
                   [elem EXCEPT !.prodList = Append(@, term), !.ownedList = owned])
    ELSE IF CreateIntegralFails(term)
    THEN IF ub = "crash"
         THEN [elem EXCEPT !.ownedList = owned, !.aborted = "null integral"]
         ELSE BuildElem(Tail(map), isetRange, ub,
                        [elem EXCEPT !.ownedList = owned, !.skipped = TRUE])
    ELSE LET integral == Integral(term, g.first, isetRange)
         IN BuildElem(Tail(map), isetRange, ub,
                      [elem EXCEPT !.prodList = Append(@, integral),
                                   !.ownedList = Append(owned, integral)])

NewElem == [prodList |-> <<>>, ownedList |-> <<>>, skipped |-> FALSE, aborted |-> "no"]

\* getPartIntList without the look-up of an entry already cached
getPartIntListNoLookup(c, iset, isetRange, ub) ==
  LET g == groupProductTerms(compRSet, iset)
      elem == BuildElem(g.map, isetRange, ub, NewElem)
      stored == setObj(c, iset, [prodList |-> elem.prodList, ownedList |-> elem.ownedList],
                       NameRegPtr(isetRange))
      none == [cache |-> c, index |-> -1, built |-> FALSE, skipped |-> FALSE,
               map |-> <<g.map>>, aborted |-> "no"]
  IN IF ~g.ok THEN [none EXCEPT !.aborted = "assert: nVar, nFunc"]
     ELSE IF Len(g.map) < 2 THEN none
     ELSE IF elem.aborted # "no" THEN [none EXCEPT !.aborted = elem.aborted]
     ELSE [cache |-> stored.cache, index |-> stored.index, built |-> TRUE,
           skipped |-> elem.skipped, map |-> <<g.map>>, aborted |-> "no"]

\* getPartIntList without the test for fewer than two groups
getPartIntListNoSizeTest(c, iset, isetRange, ub) ==
  LET hit == getObj(c, iset, NameRegPtr(isetRange))
      g == groupProductTerms(compRSet, iset)
      elem == BuildElem(g.map, isetRange, ub, NewElem)
      stored == setObj(c, iset, [prodList |-> elem.prodList, ownedList |-> elem.ownedList],
                       NameRegPtr(isetRange))
      none == [cache |-> c, index |-> -1, built |-> FALSE, skipped |-> FALSE,
               map |-> <<>>, aborted |-> "no"]
  IN IF hit.obj # NoObj THEN [none EXCEPT !.index = hit.index]
     ELSE IF ~g.ok THEN [none EXCEPT !.map = <<g.map>>, !.aborted = "assert: nVar, nFunc"]
     ELSE IF elem.aborted # "no" THEN [none EXCEPT !.map = <<g.map>>, !.aborted = elem.aborted]
     ELSE [cache |-> stored.cache, index |-> stored.index, built |-> TRUE,
           skipped |-> elem.skipped, map |-> <<g.map>>, aborted |-> "no"]

\* getPartIntList(iset, isetRange) on cache c: the cache after the call, the
\* index returned (-1 for no factorization), whether a CacheElem was built
\* and stored, the map of the grouping if it ran, and why the call aborted
getPartIntList(c, iset, isetRange, ub) ==
  LET hit == getObj(c, iset, NameRegPtr(isetRange))
      g == groupProductTerms(compRSet, iset)
      elem == BuildElem(g.map, isetRange, ub, NewElem)
      stored == setObj(c, iset, [prodList |-> elem.prodList, ownedList |-> elem.ownedList],
                       NameRegPtr(isetRange))
      none == [cache |-> c, index |-> -1, built |-> FALSE, skipped |-> FALSE,
               map |-> <<>>, aborted |-> "no"]
  IN IF hit.obj # NoObj THEN [none EXCEPT !.index = hit.index]
     ELSE IF ~g.ok THEN [none EXCEPT !.map = <<g.map>>, !.aborted = "assert: nVar, nFunc"]
     ELSE IF Len(g.map) < 2 THEN [none EXCEPT !.map = <<g.map>>]
     ELSE IF elem.aborted # "no" THEN [none EXCEPT !.map = <<g.map>>, !.aborted = elem.aborted]
     ELSE [cache |-> stored.cache, index |-> stored.index, built |-> TRUE,
           skipped |-> elem.skipped, map |-> <<g.map>>, aborted |-> "no"]

\* ------------------------------------------------------------------------
\* Products
\* ------------------------------------------------------------------------
Prefixes(n) == {SubSeq(TermNames, 1, m) : m \in 0..n}

\* the dependency oracles of a product with the given terms over the given
\* variables (a name that is not a term of the product depends on nothing)
Oracles(terms, V) ==
  {d \in [ToSet(TermNames) -> SUBSET V] :
     \A t \in ToSet(TermNames) \ ToSet(terms) : d[t] = {}}

\* the record of an operation (revivals counts the calls of getPartIntList
\* an analyticalIntegral made for sterilized slots); before any operation it
\* is NoOp
Op(name, iset, isetRange, code, r, value, revived) ==
  [op |-> name, iset |-> iset, range |-> isetRange, code |-> code,
   ret |-> r.index + 1, built |-> r.built, skipped |-> r.skipped, map |-> r.map,
   value |-> value, revived |-> revived, revivals |-> 0]

NoResult == [index |-> -1, built |-> FALSE, skipped |-> FALSE, map |-> <<>>]
NoOp == Op("none", <<>>, NullRange, 0, NoResult, <<>>, FALSE)

\* the flag, the cache and the record of the last operation after construction
InitCommon ==
  /\ forceNumInt = FALSE
  /\ cache = <<>> /\ preVal = <<>>
  /\ aborted = "no"
  /\ call = NoOp

\* ------------------------------------------------------------------------
\* Specification of the grouping: groupProductTerms applied to every
\* product and every ordered variable set of the universe, and applied
\* again to the same variables in any order
\* ------------------------------------------------------------------------
InitGroup ==
  /\ compRSet \in Prefixes(MaxTerms)
  /\ compCSet = <<>>
  /\ dep \in Oracles(compRSet, GroupVars)
  /\ val = [t \in ToSet(TermNames) |-> One]
  /\ valuations = {val}
  /\ idx = [c \in ToSet(CatNames) |-> 0]
  /\ noInt = {}
  /\ InitCommon
  /\ gVars = NoCall /\ gMap = NoCall
  /\ gVars2 = NoCall /\ gMap2 = NoCall

GroupTerms ==
  /\ gMap = NoCall
  /\ \E allVars \in ArgSets(GroupVars) :
    /\ gVars' = allVars
    /\ gMap' = <<groupProductTerms(compRSet, allVars)>>
    /\ gVars2' = NoCall /\ gMap2' = NoCall
    /\ UNCHANGED <<prodState, cacheState, aborted, call>>

GroupTermsAgain ==
  /\ gMap # NoCall
  /\ \E allVars \in Orders(ToSet(gVars)) :
       /\ gVars2' = allVars
       /\ gMap2' = <<groupProductTerms(compRSet, allVars)>>
  /\ UNCHANGED <<prodState, cacheState, aborted, call, gVars, gMap>>

NextGroup == GroupTerms \/ GroupTermsAgain

SpecGroup == InitGroup /\ [][NextGroup]_vars

\* ------------------------------------------------------------------------
\* analyticalIntegral
\* ------------------------------------------------------------------------
\* analyticalIntegral(code, rangeName) on cache c.  iset is the set the
\* revival derives from the names persisted with the slot, in the order
\* select() returns it; n counts the revivals so far.  Returns the cache
\* after the call, the value as <<value>> (none when the call aborted), the
\* number of revivals and why the call aborted.
RECURSIVE analyticalIntegral(_, _, _, _, _, _)

\* the branch for a sterilized slot without assert(code==code2)
ReviveNoAssert(code, rangeName, iset, ub, n, r) ==
  IF r.aborted # "no"
  THEN [cache |-> r.cache, value |-> <<>>, revivals |-> n + 1, aborted |-> r.aborted]
  ELSE IF n >= MaxRevivals
  THEN [cache |-> r.cache, value |-> <<>>, revivals |-> n + 1, aborted |-> "recursion"]
  ELSE analyticalIntegral(r.cache, r.index + 1, rangeName, iset, ub, n + 1)

\* the branch of analyticalIntegral for a sterilized slot; r is what
\* getPartIntList(iset, rangeName) gave
Revive(code, rangeName, iset, ub, n, r) ==
  IF r.aborted # "no"
  THEN [cache |-> r.cache, value |-> <<>>, revivals |-> n + 1, aborted |-> r.aborted]
  ELSE IF code # r.index + 1
  THEN [cache |-> r.cache, value |-> <<>>, revivals |-> n + 1,
        aborted |-> "assert: code==code2"]
  ELSE IF n >= MaxRevivals
  THEN [cache |-> r.cache, value |-> <<>>, revivals |-> n + 1, aborted |-> "recursion"]
  ELSE analyticalIntegral(r.cache, r.index + 1, rangeName, iset, ub, n + 1)

analyticalIntegral(c, code, rangeName, iset, ub, n) ==
  IF getObjByIndex(c, code - 1) # NoObj
  THEN [cache |-> c, value |-> <<calculate(getObjByIndex(c, code - 1)[1].prodList)>>,
        revivals |-> n, aborted |-> "no"]
  ELSE Revive(code, rangeName, iset, ub, n, getPartIntList(c, iset, rangeName, ub))

\* ------------------------------------------------------------------------
\* Operations on a product
\* ------------------------------------------------------------------------
\* the dereference of a missing integral has an outcome only when a term
\* supplies none
Outcomes == IF noInt = {} THEN {"crash"} ELSE UBOutcomes

\* preVal for a cache that may have gained a slot
Extend(pre, c) == [k \in 1..Len(c) |-> IF k <= Len(pre) THEN pre[k] ELSE <<>>]

\* getAnalyticalIntegralWN(allVars, analVars, normSet, rangeName), called as
\* its two assertions demand: with normSet 0 and an empty analVars, so that
\* analVars becomes a copy of allVars
GetAnalyticalIntegralWN ==
  /\ aborted = "no"
  /\ \E allVars \in ArgSets(ProdVars) :
     \E rangeName \in RangeArgs : \E ub \in Outcomes :
     \E r \in {getPartIntList(cache, allVars, rangeName, ub)} :
       IF forceNumInt
       THEN /\ call' = Op("getAnalyticalIntegralWN", allVars, rangeName, 0, NoResult, <<>>, FALSE)
            /\ UNCHANGED <<cache, preVal, aborted>>
       ELSE /\ Len(r.cache) <= MaxSlots
            /\ cache' = r.cache
            /\ preVal' = Extend(preVal, r.cache)
            /\ aborted' = r.aborted
            /\ call' = Op("getAnalyticalIntegralWN", allVars, rangeName, 0, r, <<>>, FALSE)
  /\ UNCHANGED <<prodState, groupCalls>>

\* analyticalIntegral(code, rangeName) for a code getAnalyticalIntegralWN
\* returned
AnalyticalIntegral ==
  /\ aborted = "no"
  /\ \E code \in 1..Len(cache) : \E rangeName \in RangeArgs : \E ub \in Outcomes :
     \E iset \in select(nameSet2ByIndex(cache, code - 1), getParameters) :
     \E a \in {analyticalIntegral(cache, code, rangeName, iset, ub, 0)} :
       /\ Len(a.cache) <= MaxSlots
       /\ cache' = a.cache
       /\ aborted' = a.aborted
       /\ preVal' = [k \in 1..Len(a.cache) |->
                       IF k = code /\ a.value # <<>> THEN <<>>
                       ELSE Extend(preVal, a.cache)[k]]
       /\ call' = [Op("analyticalIntegral", <<>>, rangeName, code, NoResult, a.value,
                       a.revivals > 0) EXCEPT !.revivals = a.revivals]
  /\ UNCHANGED <<prodState, groupCalls>>

\* what the call of select() through the null name set of an unknown slot
\* does: the program crashes, or select() returns an empty set
NullSetOutcomes == {"crash", "empty"}

\* the codes of the model that name no slot: 0 and the first unused one
UnknownCodes(c) == {0, Len(c) + 1}

\* analyticalIntegral(code, rangeName) for a code that names no slot:
\* getObjByIndex gives no object, the branch for a sterilized slot is taken
\* and nameSet2ByIndex(code-1), a null pointer, is dereferenced
AnalyticalIntegralUnknown ==
  /\ aborted = "no"
  /\ \E code \in UnknownCodes(cache) : \E rangeName \in RangeArgs :
     \E out \in NullSetOutcomes :
     \E a \in {IF out = "crash"
                THEN [cache |-> cache, value |-> <<>>, revivals |-> 0,
                      aborted |-> "null name set"]
                ELSE analyticalIntegral(cache, code, rangeName, <<>>, "crash", 0)} :
       /\ cache' = a.cache
       /\ aborted' = a.aborted
       /\ preVal' = Extend(preVal, a.cache)
       /\ call' = [Op("analyticalIntegral", <<>>, rangeName, code, NoResult, a.value,
                       TRUE) EXCEPT !.revivals = a.revivals]
  /\ UNCHANGED <<prodState, groupCalls>>

\* the cache manager sterilizes a slot: the object goes, the slot and its
\* key stay
Sterilize ==
  /\ aborted = "no"
  /\ \E k \in 1..Len(cache) :
       /\ cache[k].obj # NoObj
       /\ cache' = [cache EXCEPT ![k].obj = NoObj]
       /\ preVal' = [preVal EXCEPT ![k] = <<calculate(cache[k].obj[1].prodList)>>]
  /\ call' = Op("sterilize", <<>>, NullRange, 0, NoResult, <<>>, FALSE)
  /\ UNCHANGED <<prodState, aborted, groupCalls>>

\* evaluate()
Evaluate ==
  /\ aborted = "no"
  /\ call' = Op("evaluate", <<>>, NullRange, 0, NoResult,
                <<evaluate(compRSet, compCSet)>>, FALSE)
  /\ UNCHANGED <<prodState, cacheState, aborted, groupCalls>>

\* the real terms take the values of another point of the parameters
SetValue ==
  /\ aborted = "no"
  /\ \E v \in valuations \ {val} : val' = v
  /\ preVal' = [k \in 1..Len(cache) |-> <<>>]
  /\ call' = Op("setValue", <<>>, NullRange, 0, NoResult, <<>>, FALSE)
  /\ UNCHANGED <<compRSet, compCSet, dep, valuations, idx, noInt, forceNumInt, cache,
                 aborted, groupCalls>>

\* a discrete term changes its index
SetIndex ==
  /\ aborted = "no"
  /\ \E c \in ToSet(compCSet) : \E i \in CatIndices \ {idx[c]} :
       idx' = [idx EXCEPT ![c] = i]
  /\ call' = Op("setIndex", <<>>, NullRange, 0, NoResult, <<>>, FALSE)
  /\ UNCHANGED <<compRSet, compCSet, dep, val, valuations, noInt, forceNumInt,
                 cacheState, aborted, groupCalls>>

\* forceNumInt(flag)
ForceNumInt ==
  /\ aborted = "no"
  /\ forceNumInt' = ~forceNumInt
  /\ call' = Op("forceNumInt", <<>>, NullRange, 0, NoResult, <<>>, FALSE)
  /\ UNCHANGED <<compRSet, compCSet, dep, val, valuations, idx, noInt, cacheState,
                 aborted, groupCalls>>

\* ------------------------------------------------------------------------
\* Initial states
\* ------------------------------------------------------------------------
\* the valuations of the terms of a product (a name that is no term has 1)
ValuationsOf(terms) ==
  {v \in [ToSet(TermNames) -> TermValues \cup {One}] :
     \A t \in ToSet(TermNames) :
       IF t \in ToSet(terms) THEN v[t] \in TermValues ELSE v[t] = One}

\* two points of the parameters at which the terms have distinct values
PointA(terms) ==
  [t \in ToSet(TermNames) |->
     IF t \notin ToSet(terms) THEN One
     ELSE IF t = "f" THEN Half(5) ELSE IF t = "g" THEN FromInt(2) ELSE FromInt(3)]

PointB(terms) ==
  [t \in ToSet(TermNames) |->
     IF t \notin ToSet(terms) THEN One
     ELSE IF t = "f" THEN FromInt(2) ELSE IF t = "g" THEN FromInt(5) ELSE Half(3)]

\* no discrete terms
NoCats ==
  /\ compCSet = <<>>
  /\ idx = [c \in ToSet(CatNames) |-> 0]

\* a product over the names, with every dependency oracle over ProdVars
AnyProduct(names) ==
  /\ compRSet \in {SubSeq(names, 1, m) : m \in 0..Len(names)}
  /\ dep \in Oracles(compRSet, ProdVars)

\* the dependency oracle that lets f, g, h depend on the given variables
Deps(df, dg, dh) ==
  [t \in ToSet(TermNames) |->
     IF t = "f" THEN df ELSE IF t = "g" THEN dg ELSE IF t = "h" THEN dh ELSE {}]

\* the products of the cache specification: f(x); f(x) g(y); f(x) g(x,y);
\* f() g() h(x); f(x) g(y) h(x,y)
CacheProducts ==
  { [terms |-> <<"f">>,           dep |-> Deps({"x"}, {}, {})],
    [terms |-> <<"f", "g">>,      dep |-> Deps({"x"}, {"y"}, {})],
    [terms |-> <<"f", "g">>,      dep |-> Deps({"x"}, {"x", "y"}, {})],
    [terms |-> <<"f", "g", "h">>, dep |-> Deps({}, {}, {"x"})],
    [terms |-> <<"f", "g", "h">>, dep |-> Deps({"x"}, {"y"}, {"x", "y"})] }

\* ------------------------------------------------------------------------
\* Specification of the integral cache: requests, evaluations of cached
\* codes, sterilization and changes of the term values, on the products of
\* CacheProducts
\* ------------------------------------------------------------------------
InitCache ==
  /\ \E p \in CacheProducts : compRSet = p.terms /\ dep = p.dep
  /\ NoCats
  /\ valuations = {PointA(compRSet), PointB(compRSet)}
  /\ val = PointA(compRSet)
  /\ InitCommon
  /\ gVars = NoCall /\ gMap = NoCall
  /\ gVars2 = NoCall /\ gMap2 = NoCall

Init == InitCache /\ noInt = {}

Next ==
  \/ GetAnalyticalIntegralWN
  \/ AnalyticalIntegral
  \/ Sterilize
  \/ SetValue

Spec == Init /\ [][Next]_vars

\* the same on the products of two terms when terms may supply no integral
NoIntProducts == {p \in CacheProducts : Len(p.terms) = 2}

InitNoInt ==
  /\ InitCache
  /\ \E p \in NoIntProducts : compRSet = p.terms /\ dep = p.dep
  /\ noInt \in SUBSET ToSet(compRSet)

NextNoInt ==
  \/ GetAnalyticalIntegralWN
  \/ AnalyticalIntegral
  \/ Sterilize

SpecNoInt == InitNoInt /\ [][NextNoInt]_vars

\* ------------------------------------------------------------------------
\* Specification of the codes: the cache specification with evaluations of
\* codes that no request returned
\* ------------------------------------------------------------------------
NextCodes ==
  \/ GetAnalyticalIntegralWN
  \/ AnalyticalIntegral
  \/ AnalyticalIntegralUnknown
  \/ Sterilize

SpecCodes == Init /\ [][NextCodes]_vars

\* ------------------------------------------------------------------------
\* The constructor
\* ------------------------------------------------------------------------
\* a component that is neither a RooAbsReal nor a RooAbsCategory
OtherNames == <<"o">>

\* the components a constructor of the model is given
CtorComps == {"f", "g"} \cup ToSet(CatNames) \cup ToSet(OtherNames)

IsReal(comp) == comp \in ToSet(TermNames)
IsCategory(comp) == comp \in ToSet(CatNames)

NewProduct == [compRSet |-> <<>>, compCSet |-> <<>>, aborted |-> "no"]

\* the loop of the constructor over prodSet; RooErrorHandler::softAbort()
\* takes control away from the constructor
RECURSIVE ctorLoop(_, _)
ctorLoop(prodSet, st) ==
  IF prodSet = <<>> THEN st
  ELSE LET comp == Head(prodSet) IN
       IF IsReal(comp)
       THEN ctorLoop(Tail(prodSet), [st EXCEPT !.compRSet = AddArg(@, comp)])
       ELSE IF IsCategory(comp)
       THEN ctorLoop(Tail(prodSet), [st EXCEPT !.compCSet = AddArg(@, comp)])
       ELSE [st EXCEPT !.aborted = "softAbort"]

\* RooProduct(name, title, prodSet)
Construct ==
  /\ call = NoOp
  /\ \E prodSet \in ArgSets(CtorComps) :
     \E st \in {ctorLoop(prodSet, NewProduct)} :
       /\ compRSet' = st.compRSet
       /\ compCSet' = st.compCSet
       /\ aborted' = st.aborted
       /\ call' = Op("ctor", prodSet, NullRange, 0, NoResult, <<>>, FALSE)
  /\ UNCHANGED <<dep, val, valuations, idx, noInt, forceNumInt, cacheState, groupCalls>>

\* ------------------------------------------------------------------------
\* Specification of the construction: a product is constructed from any
\* ordered set of components and then evaluated
\* ------------------------------------------------------------------------
InitCtor ==
  /\ compRSet = <<>> /\ compCSet = <<>>
  /\ dep = Deps({"x"}, {"y"}, {})
  /\ val \in ValuationsOf(<<"f", "g">>)
  /\ valuations = {val}
  /\ idx \in [ToSet(CatNames) -> CatIndices]
  /\ noInt = {}
  /\ InitCommon
  /\ gVars = NoCall /\ gMap = NoCall
  /\ gVars2 = NoCall /\ gMap2 = NoCall

NextCtor ==
  \/ Construct
  \/ Evaluate

SpecCtor == InitCtor /\ [][NextCtor]_vars

\* ------------------------------------------------------------------------
\* Specification of the building of the lists: requests on every product of
\* up to three terms over ProdVars
\* ------------------------------------------------------------------------
InitBuild ==
  /\ AnyProduct(<<"f", "g", "h">>)
  /\ NoCats
  /\ valuations = {PointA(compRSet)}
  /\ val = PointA(compRSet)
  /\ noInt = {}
  /\ InitCommon
  /\ gVars = NoCall /\ gMap = NoCall
  /\ gVars2 = NoCall /\ gMap2 = NoCall

NextBuild == GetAnalyticalIntegralWN

SpecBuild == InitBuild /\ [][NextBuild]_vars

\* ------------------------------------------------------------------------
\* Specification of the evaluation: the products of up to two terms f(x),
\* g(y), with and without a discrete term, at every valuation and index
\* ------------------------------------------------------------------------
InitEval ==
  /\ compRSet \in {SubSeq(<<"f", "g">>, 1, m) : m \in 0..2}
  /\ compCSet \in {SubSeq(CatNames, 1, m) : m \in 0..Len(CatNames)}
  /\ dep = [t \in ToSet(TermNames) |->
              IF t \in ToSet(compRSet) THEN Deps({"x"}, {"y"}, {})[t] ELSE {}]
  /\ valuations = ValuationsOf(compRSet)
  /\ val \in valuations
  /\ idx \in {i \in [ToSet(CatNames) -> CatIndices \cup {0}] :
               \A c \in ToSet(CatNames) :
                 IF c \in ToSet(compCSet) THEN i[c] \in CatIndices ELSE i[c] = 0}
  /\ noInt = {}
  /\ InitCommon
  /\ gVars = NoCall /\ gMap = NoCall
  /\ gVars2 = NoCall /\ gMap2 = NoCall

NextEval ==
  \/ Evaluate
  \/ SetValue
  \/ SetIndex
  \/ ForceNumInt
  \/ GetAnalyticalIntegralWN

SpecEval == InitEval /\ [][NextEval]_vars

\* ------------------------------------------------------------------------
\* Properties of the grouping
\* ------------------------------------------------------------------------
\* the groups of a map as a set of (variable set, term set) pairs
Partition(map) == {<<ToSet(map[n].first), ToSet(map[n].second)>> : n \in 1..Len(map)}

\* the indices of the groups that hold e in their variable / term set
GroupsOfVar(map, v)  == {n \in 1..Len(map) : v \in ToSet(map[n].first)}
GroupsOfTerm(map, t) == {n \in 1..Len(map) : t \in ToSet(map[n].second)}

\* C1: the groups returned by groupProductTerms(V) form a partition: every
\* variable of V is in exactly one group's variable set, every real term in
\* exactly one group's term set, the variable-set sizes sum to |V| and the
\* term-set sizes to the number of real terms, so the two assertions hold.
C1_GroupsPartition ==
  gMap # NoCall =>
    LET map == gMap[1].map IN
    /\ \A v \in ToSet(gVars) : Cardinality(GroupsOfVar(map, v)) = 1
    /\ \A t \in ToSet(compRSet) : Cardinality(GroupsOfTerm(map, t)) = 1
    /\ \A n \in 1..Len(map) :
         /\ Cardinality(ToSet(map[n].first)) = Len(map[n].first)
         /\ Cardinality(ToSet(map[n].second)) = Len(map[n].second)
         /\ ToSet(map[n].first) \subseteq ToSet(gVars)
         /\ ToSet(map[n].second) \subseteq ToSet(compRSet)
    /\ SumSizes([n \in 1..Len(map) |-> Len(map[n].first)]) = Cardinality(ToSet(gVars))
    /\ SumSizes([n \in 1..Len(map) |-> Len(map[n].second)]) = Len(compRSet)
    /\ gMap[1].ok

\* a grouping in which two single-variable groups were merged and a second
\* group remains
C1_Witness ==
  /\ gMap # NoCall
  /\ Len(gVars) = 3
  /\ Len(gMap[1].map) = 2
  /\ \E n \in 1..2 : Len(gMap[1].map[n].first) = 2 /\ Len(gMap[1].map[n].second) = 2

\* the terms linked to a term of S by a chain of shared variables of V
RECURSIVE Linked(_, _)
Linked(S, V) ==
  LET more == S \cup {t \in ToSet(compRSet) :
                        \E s \in S : dep[s] \cap dep[t] \cap V # {}}
  IN IF more = S THEN S ELSE Linked(more, V)

\* C2: two real terms that each depend on some variable of V are in the same
\* group exactly when a chain of shared integration variables links them, no
\* two groups share a term, and f(x), g(y), h(x,y) with V = {x,y} give the
\* single group ({x,y},{f,g,h}).
C2_ConnectedComponents ==
  gMap # NoCall =>
    LET map == gMap[1].map
        V   == ToSet(gVars)
        dependent == {t \in ToSet(compRSet) : dep[t] \cap V # {}}
    IN
    /\ \A t1 \in dependent : \A t2 \in dependent :
         (GroupsOfTerm(map, t1) \cap GroupsOfTerm(map, t2) # {})
           <=> (t2 \in Linked({t1}, V))
    /\ \A m \in 1..Len(map) : \A n \in 1..Len(map) :
         m # n => ~Overlaps(map[m].second, map[n].second)
    /\ ( /\ compRSet = <<"f", "g", "h">>
         /\ dep["f"] = {"x"} /\ dep["g"] = {"y"} /\ dep["h"] = {"x", "y"}
         /\ V = {"x", "y"} )
       => Partition(map) = {<<{"x", "y"}, {"f", "g", "h"}>>}

\* the grouping of f(x), g(y), h(x,y) over {x,y} in the order x, y
C2_Witness ==
  /\ gMap # NoCall
  /\ compRSet = <<"f", "g", "h">>
  /\ dep["f"] = {"x"} /\ dep["g"] = {"y"} /\ dep["h"] = {"x", "y"}
  /\ gVars = <<"x", "y">>
  /\ Len(gMap[1].map) = 1

\* C3: groupProductTerms run again on the same product and the same
\* variables, iterated in the same or in another order, yields the same set
\* of (variable set, term set) pairs.
C3_SamePartition ==
  gMap2 # NoCall => Partition(gMap2[1].map) = Partition(gMap[1].map)

\* a second run over another order of the variables that returns the
\* groups in another order
C3_Witness ==
  /\ gMap2 # NoCall
  /\ gVars2 # gVars
  /\ gMap2[1].map # gMap[1].map
  /\ Len(gMap[1].map) >= 2
  /\ \E n \in 1..Len(gMap[1].map) : Len(gMap[1].map[n].first) >= 2

\* ------------------------------------------------------------------------
\* Properties of the partial-integral lists
\* ------------------------------------------------------------------------
\* the last operation was a request that ran the grouping
Grouped == call.op = "getAnalyticalIntegralWN" /\ call.map # <<>>

\* the terms of the product that depend on no variable of V
IndepTerms(V) == {t \in ToSet(compRSet) : dep[t] \cap V = {}}

\* the list cached under a code
ListOf(code) == cache[code].obj[1].prodList

\* the product f(x) g(y)
IsFxGy ==
  /\ compRSet = <<"f", "g">>
  /\ dep["f"] = {"x"} /\ dep["g"] = {"y"}

\* C4: when at least one real term depends on no variable of V, the first
\* group of groupProductTerms(V) is (no variable, exactly the terms
\* independent of V), no other group has an empty variable set, and the list
\* getPartIntList caches holds that term (a term for one, a sub-product for
\* several) unintegrated in first position, followed by one integral per
\* remaining group over that group's variables; for f(x), g(y) and V = {x}
\* the groups are (empty, {g}), ({x}, {f}) and the list is [g, integral of f
\* over x].
C4_IndepGroupFirst ==
  (Grouped /\ IndepTerms(ToSet(call.iset)) # {}) =>
    LET map == call.map[1] IN
    /\ Len(map) >= 1
    /\ map[1].first = <<>>
    /\ ToSet(map[1].second) = IndepTerms(ToSet(call.iset))
    /\ Len(map[1].second) = Cardinality(IndepTerms(ToSet(call.iset)))
    /\ \A n \in 2..Len(map) : map[n].first # <<>>
    /\ call.built =>
         LET list == ListOf(call.ret) IN
         /\ Len(list) = Len(map)
         /\ list[1].kind = (IF Len(map[1].second) > 1 THEN "subprod" ELSE "term")
         /\ list[1].terms = map[1].second
         /\ \A n \in 2..Len(map) :
              /\ list[n].kind = "integral"
              /\ list[n].of = (IF Len(map[n].second) > 1 THEN "subprod" ELSE "term")
              /\ list[n].terms = map[n].second
              /\ list[n].vars = map[n].first
              /\ list[n].range = call.range
    /\ (IsFxGy /\ call.iset = <<"x">>) =>
         /\ map = << [first |-> <<>>, second |-> <<"g">>],
                     [first |-> <<"x">>, second |-> <<"f">>] >>
         /\ call.built
         /\ Len(ListOf(call.ret)) = 2
         /\ ListOf(call.ret)[1].kind = "term" /\ ListOf(call.ret)[1].terms = <<"g">>
         /\ ListOf(call.ret)[2].kind = "integral" /\ ListOf(call.ret)[2].terms = <<"f">>
         /\ ListOf(call.ret)[2].vars = <<"x">>

\* a request for f(x) g(y) over {x} cached the list [g, integral of f over x]
C4_Witness ==
  /\ Grouped /\ IsFxGy /\ call.iset = <<"x">> /\ call.built
  /\ ListOf(call.ret)[1].terms = <<"g">>
  /\ ListOf(call.ret)[2].kind = "integral"

\* the number of elements of a sequence for which the test holds
CountOf(seq, Test(_)) == Cardinality({n \in 1..Len(seq) : Test(seq[n])})

\* what an entry must hold for the groups of a map and a range name
EntryOfMap(e, map, range) ==
  /\ Len(e.prodList) = Len(map)
  /\ \A k \in 1..Len(map) :
       LET g == map[k]
           item == e.prodList[k]
           base == IF Len(g.second) > 1 THEN "subprod" ELSE "term"
       IN /\ item.terms = g.second
          /\ IF g.first # <<>>
             THEN /\ item.kind = "integral" /\ item.of = base
                  /\ item.vars = g.first /\ item.range = range
                  /\ \E n \in 1..Len(e.ownedList) : e.ownedList[n] = item
             ELSE item.kind = base
          /\ Len(g.second) > 1 =>
               \E n \in 1..Len(e.ownedList) :
                 e.ownedList[n].kind = "subprod" /\ e.ownedList[n].terms = g.second
  /\ \A n \in 1..Len(e.ownedList) : e.ownedList[n].kind \in {"subprod", "integral"}
  /\ CountOf(e.ownedList, LAMBDA o : o.kind = "subprod")
       = CountOf(map, LAMBDA g : Len(g.second) > 1)
  /\ CountOf(e.ownedList, LAMBDA o : o.kind = "integral")
       = CountOf(map, LAMBDA g : g.first # <<>>)

\* the range name a slot was registered with
RangeOfSlot(k) == IF cache[k].range = 0 THEN NullRange ELSE RangeNames[cache[k].range]

\* C14: every entry getPartIntList built holds one element per group in the
\* order of the grouping (of the slot's variables in some order): the
\* integral over the group's variables when it has any, else the group's
\* term or sub-product; a sub-product is made exactly for the groups of
\* more than one term; the owned list holds exactly the sub-products and
\* the integrals made, never a term of the product.
C14_EntryStructure ==
  \A k \in 1..Len(cache) :
    cache[k].obj # NoObj =>
      \E iset \in Orders(cache[k].nset) :
        EntryOfMap(cache[k].obj[1], groupProductTerms(compRSet, iset).map, RangeOfSlot(k))

\* f(x) g(x) h(y) requested over <<x, y>>: the entry holds the integral of
\* the sub-product f g over x, then the integral of h over y, and owns the
\* sub-product and both integrals
C14_Witness ==
  /\ compRSet = <<"f", "g", "h">>
  /\ dep["f"] = {"x"} /\ dep["g"] = {"x"} /\ dep["h"] = {"y"}
  /\ call.op = "getAnalyticalIntegralWN" /\ call.built
  /\ call.iset = <<"x", "y">>
  /\ Len(ListOf(call.ret)) = 2
  /\ ListOf(call.ret)[1].of = "subprod" /\ ListOf(call.ret)[1].vars = <<"x">>
  /\ ListOf(call.ret)[2].of = "term" /\ ListOf(call.ret)[2].vars = <<"y">>
  /\ Len(cache[call.ret].obj[1].ownedList) = 3

\* C5: a request whose grouping yields fewer than two groups returns code 0
\* (getPartIntList returned -1) and leaves the integral cache exactly as it
\* was: no entry is created, none is changed.
C5_NoFactorization ==
  [][(call'.op = "getAnalyticalIntegralWN" /\ call'.map # <<>> /\ aborted' = "no"
      /\ Len(call'.map[1]) < 2)
     => (call'.ret = 0 /\ ~call'.built /\ cache' = cache)]_vars

\* the single term f(x) was requested over {x}: one group, code 0, while
\* nothing is cached
C5_Witness ==
  /\ Grouped
  /\ compRSet = <<"f">> /\ dep["f"] = {"x"}
  /\ call.iset = <<"x">>
  /\ Len(call.map[1]) = 1
  /\ call.ret = 0
  /\ cache = <<>>

\* C6: once an entry is stored for a key (V, r), every later request with
\* a variable set equal by value to V (in any order) and the same range
\* token returns the code of that entry, builds and stores nothing and
\* leaves the cache as it was, whatever was requested for other keys in
\* between; no two entries ever share a key.
C6_CacheKeyRoundTrip ==
  [][/\ \A k \in 1..Len(cache) :
          (/\ call'.op = "getAnalyticalIntegralWN"
           /\ ~forceNumInt
           /\ cache[k].obj # NoObj
           /\ cache[k].nset = ToSet(call'.iset)
           /\ cache[k].range = NameRegPtr(call'.range))
          => (call'.ret = k /\ ~call'.built /\ cache' = cache)
     /\ \A j, k \in 1..Len(cache') :
          (cache'[j].nset = cache'[k].nset /\ cache'[j].range = cache'[k].range)
          => j = k]_vars

\* f(x) g(y): the entry built for <<x, y>> was found again by a request for
\* <<y, x>>, after another key was cached in between
C6_Witness ==
  /\ IsFxGy
  /\ call.op = "getAnalyticalIntegralWN"
  /\ call.iset = <<"y", "x">> /\ call.range = NullRange
  /\ call.ret = 1 /\ ~call.built
  /\ Len(cache) = 2
  /\ ListOf(1)[1].vars = <<"x">>

\* C7: an analyticalIntegral(c, rangeName) that finds the entry of code c
\* sterilized re-creates it under the same code c: the assertion
\* code==code2 holds, the call returns a value and the entry of c is present
\* again.
C7_RevivalSameSlot ==
  (call.op = "analyticalIntegral" /\ call.revived) =>
    /\ aborted = "no"
    /\ call.value # <<>>
    /\ cache[call.code].obj # NoObj

\* the range name the slot of a code was registered with
RangeOfCode(code) ==
  IF cache[code].range = 0 THEN NullRange ELSE RangeNames[cache[code].range]

C13_OneRevival ==
  call.op = "analyticalIntegral" =>
    /\ call.revivals <= 1
    /\ aborted # "recursion"
    /\ call.revived => call.revivals = 1
    /\ (call.revived /\ aborted = "no") =>
         /\ cache[call.code].obj # NoObj
         /\ call.value # <<>>
    /\ ~call.revived => (aborted = "no" /\ call.value # <<>>)

\* a sterilized entry of f(x) g(y) was revived by one call of getPartIntList
\* and the call returned a value
C13_Witness ==
  /\ IsFxGy
  /\ call.op = "analyticalIntegral" /\ call.revived
  /\ call.revivals = 1
  /\ call.range = RangeOfCode(call.code)
  /\ call.value # <<>>
  /\ cache[call.code].obj # NoObj

\* the sub-products the entries of the cache own
SubProductsOwned ==
  UNION {{cache[k].obj[1].ownedList[n] : n \in 1..Len(cache[k].obj[1].ownedList)} :
           k \in {j \in 1..Len(cache) : cache[j].obj # NoObj}}

\* C15: the name of a sub-product depends on the set of its terms only: two
\* sub-products made for equal sets of terms have the same name, in
\* whatever order the terms came into their groups.
C15_SubProductName ==
  \A a, b \in SubProductsOwned :
    (a.kind = "subprod" /\ b.kind = "subprod" /\ ToSet(a.terms) = ToSet(b.terms))
    => a.name = b.name

\* what the caller of analyticalIntegral(code, rangeName) sees in the
\* current state: the value returned or how the call ended
OutcomeOf(code, rangeName) ==
  {[value |-> a.value, aborted |-> a.aborted] :
     a \in {analyticalIntegral(cache, code, rangeName, iset, "crash", 0) :
              iset \in select(nameSet2ByIndex(cache, code - 1), getParameters)}}

\* C16: the range name is encoded in the code: in every state, also with
\* the entry of the code sterilized, analyticalIntegral(c, r') has the same
\* outcome for every range-name argument r'.
C16_RangeInCode ==
  aborted = "no" =>
    \A code \in 1..Len(cache) : \A r1, r2 \in RangeArgs :
      OutcomeOf(code, r1) = OutcomeOf(code, r2)

\* C17: every group groupProductTerms returns has at least one term, also
\* when a variable of V is one no real term depends on; so in
\* getPartIntList a group without sub-product has exactly one term and the
\* assertions on the size of the group and on the term never fail.
C17_GroupsHaveTerms ==
  /\ Grouped => \A n \in 1..Len(call.map[1]) : call.map[1][n].second # <<>>
  /\ aborted # "assert: group size"

\* ------------------------------------------------------------------------
\* Properties of evaluate
\* ------------------------------------------------------------------------
\* numerator and exponent of the product of the values of a set of terms
RECURSIVE NumOver(_)
NumOver(S) ==
  IF S = {} THEN 1 ELSE LET t == CHOOSE t \in S : TRUE IN val[t].n * NumOver(S \ {t})

RECURSIVE ExpOver(_)
ExpOver(S) ==
  IF S = {} THEN 0 ELSE LET t == CHOOSE t \in S : TRUE IN val[t].d + ExpOver(S \ {t})

RECURSIVE IndexOver(_)
IndexOver(S) ==
  IF S = {} THEN 1 ELSE LET c == CHOOSE c \in S : TRUE IN idx[c] * IndexOver(S \ {c})

\* C9: evaluate() returns the product of the current values of the real
\* terms times the product of the current indices of the discrete terms (1
\* for an empty collection); one real term of value 2.5 and one discrete
\* term of index 3 give 7.5; evaluate() changes nothing of the product or of
\* its cache.
C9_Evaluate ==
  /\ [](call.op = "evaluate" =>
          /\ call.value = <<Norm([n |-> NumOver(ToSet(compRSet)) * IndexOver(ToSet(compCSet)),
                                  d |-> ExpOver(ToSet(compRSet))])>>
          /\ (/\ compRSet = <<"f">> /\ val["f"] = Half(5)
              /\ compCSet = <<"c">> /\ idx["c"] = 3)
             => call.value = <<[n |-> 15, d |-> 1]>>)
  /\ [][call'.op = "evaluate" => UNCHANGED <<prodState, cacheState, aborted>>]_vars

\* 2.5 times index 3 evaluated to 7.5
C9_Witness ==
  /\ call.op = "evaluate"
  /\ compRSet = <<"f">> /\ val["f"] = Half(5)
  /\ compCSet = <<"c">> /\ idx["c"] = 3
  /\ call.value = <<[n |-> 15, d |-> 1]>>

\* ------------------------------------------------------------------------
\* Properties of a missing integral
\* ------------------------------------------------------------------------
\* the grouping of the last request needs an integral that the term does
\* not supply
IntegralMissing ==
  /\ Grouped
  /\ Len(call.map[1]) >= 2
  /\ \E n \in 1..Len(call.map[1]) :
       /\ call.map[1][n].first # <<>>
       /\ Len(call.map[1][n].second) = 1
       /\ call.map[1][n].second[1] \in noInt

\* C10: when a term of a group with variables supplies no integral, the
\* request aborts: nothing is stored, no code is returned, the integral is
\* not skipped.
C10_MissingIntegralFatal ==
  IntegralMissing =>
    /\ aborted # "no"
    /\ ~call.built /\ ~call.skipped
    /\ call.ret = 0

\* ------------------------------------------------------------------------
\* Properties of unknown codes
\* ------------------------------------------------------------------------
\* the last operation was analyticalIntegral for a code that names no slot
UnknownCodeCall ==
  /\ call.op = "analyticalIntegral"
  /\ ~ValidIndex(cache, call.code - 1)

\* C11: analyticalIntegral for a code that getAnalyticalIntegralWN never
\* returned (code 0 included) aborts on the unknown code: it gives no
\* value and the code is not taken for a sterilized slot to revive.
C11_UnknownCodeFatal ==
  UnknownCodeCall =>
    /\ aborted # "no"
    /\ call.value = <<>>
    /\ ~call.revived

\* ------------------------------------------------------------------------
\* Properties of the constructor
\* ------------------------------------------------------------------------
\* the product was constructed from a set with a component that is neither
\* a real nor a discrete term
BadCtorCall ==
  /\ call.op = "ctor"
  /\ \E n \in 1..Len(call.iset) : ~IsReal(call.iset[n]) /\ ~IsCategory(call.iset[n])

\* C12: a constructor given a component that is neither a real nor a
\* discrete term aborts and commits nothing: no component of the set,
\* before or after the offending one, is registered in the collection of
\* the real terms or of the discrete terms.
C12_CtorNoPartialState ==
  BadCtorCall =>
    /\ aborted # "no"
    /\ compRSet = <<>>
    /\ compCSet = <<>>

====
